---------------------------- MODULE Spec2Model ----------------------------
(***************************************************************************)
(* A model of the Pokemon question-answering service:                      *)
(*   - the SupervisorAgent workflow (classify_question, the four handler   *)
(*     nodes, END) and the POST /api/chat endpoint that wraps it;          *)
(*   - the PokemonExpertAgent battle predictor (determine_winner and its   *)
(*     compare_pokemon_data tool) and the ResearcherAgent Knowledge        *)
(*     Fetcher (get_pokemon_data).                                         *)
(*                                                                         *)
(* Text is modelled at the granularity the regular expressions of the code *)
(* observe: a text is a sequence of tokens separated by single blanks, and *)
(* a token is a word (letters only) that may start with a capital letter   *)
(* and may carry a punctuation suffix.  The field w holds the word in      *)
(* lower case, cap says whether its first letter is a capital (the others  *)
(* are lower case), suf is one of "", "?", "." and "'s".  str.lower() is   *)
(* therefore the map that clears cap.  Words of the vocabulary are chosen  *)
(* so that no keyword of the code occurs inside another word except where  *)
(* the tables HasPrefix / HasSuffix / HasInfix say so.                     *)
(*                                                                         *)
(* The decorators (@tool) are taken to be transparent: a decorated method  *)
(* called from Python code behaves as its body.                            *)
(***************************************************************************)
EXTENDS Integers, Sequences, FiniteSets, TLC

(***************************************************************************)
(* Bounds of the model.                                                    *)
(***************************************************************************)
\* Questions are all token sequences of at most MaxQLen tokens over
\* Vocabulary, together with the fixed questions of Corpus.
MaxQLen == 3
\* The expert's agent answers with a text of at most MaxTextLen tokens over
\* TextVocabulary, after at most MaxToolCalls calls of compare_pokemon_data.
MaxTextLen == 3
MaxToolCalls == 1

(***************************************************************************)
(* Values.                                                                 *)
(***************************************************************************)
\* Python's None, for the dict-valued fields.
None == [none |-> TRUE]

\* Tokens.
Tok(word) == [w |-> word, cap |-> FALSE, suf |-> ""]
Cap(word) == [w |-> word, cap |-> TRUE, suf |-> ""]
Suf(t, s) == [t EXCEPT !.suf = s]

\* str.lower() on one token and on a text.
LowerTok(t) == [t EXCEPT !.cap = FALSE]
LowerText(text) == [i \in DOMAIN text |-> LowerTok(text[i])]

\* The empty string.
EmptyText == << >>

\* Python dictionaries are functions from keys (strings) to values; the
\* AgentState of a run starts without the keys pokemon_names / pokemon_name.
Get(d, k, default) == IF k \in DOMAIN d THEN d[k] ELSE default
Put(d, k, v) == [x \in (DOMAIN d) \cup {k} |-> IF x = k THEN v ELSE d[x]]

\* Python's truth value of a dictionary-or-None and of a string.
TruthyDict(v) == v # None /\ DOMAIN v # {}
TruthyStr(v) == v # ""

VARIABLES
    pc,         \* the workflow node about to run, "END", "error" or "responded"
    state,      \* the AgentState dictionary of the run
    cls,        \* what the classification call returned (a local of
                \* _classify_question), None before it returned
    visited,    \* the workflow nodes run so far, in order
    calls,      \* the calls made to the researcher and the expert, in order
    response,   \* the AnswerResponse of POST /api/chat, None before it is sent
    bpc,        \* GET /api/battle: the step of the handler about to run
    request,    \* GET /api/battle: the query parameters of the request
    expert,     \* GET /api/battle: whether a PokemonExpertAgent was built
    tool_calls, \* the compare_pokemon_data calls the expert's agent made
    comparison, \* the last of them: its arguments, HTTP outcomes and result
    verdict,    \* what determine_winner returned, None before it returned
    bresponse,  \* the response of GET /api/battle, None before it is sent
    args,       \* a direct call of one of the tools: its arguments
    ret,        \* what that call returned, None before it returned
    runs        \* the process_question invocations in progress on one
                \* SupervisorAgent: for each its question, the node about to
                \* run, its AgentState and the results its calls returned

chatVars == <<pc, state, cls, visited, calls, response>>
battleVars == <<bpc, request, expert, tool_calls, comparison, verdict, bresponse>>
toolVars == <<args, ret>>
vars == <<chatVars, battleVars, toolVars, runs>>

(***************************************************************************)
(* Sub-word structure of the vocabulary: pairs <<longer, shorter>>.        *)
(***************************************************************************)
PrefixPairs ==
    { <<"wins", "win">>, <<"winner", "win">>,
      <<"weight", "weigh">>, <<"weighs", "weigh">>,
      <<"does", "do">>, <<"island", "is">>,
      <<"mewtwo", "mew">> }
SuffixPairs == { <<"this", "is">> }

\* word starts with / ends with / contains the string p.
HasPrefix(word, p) == word = p \/ <<word, p>> \in PrefixPairs
HasSuffix(word, p) == word = p \/ <<word, p>> \in SuffixPairs
HasInfix(word, p) == HasPrefix(word, p) \/ HasSuffix(word, p)

\* A token that ends in a word character, and the last word in it
\* ("Pikachu's" ends in the word "s").
EndsInWord(t) == t.suf \in {"", "'s"}
LastWord(t) == IF t.suf = "'s" THEN "s" ELSE t.w

\* (\w+) followed by white space or the end of the text: the whole token
\* is one word, in either case.
PureWord(t) == t.suf = ""

\* Literal matching is case sensitive: a literal of the code (always written
\* in lower case) matches a token only when the token has no capital.  The
\* callers that pass re.IGNORECASE or lower the text first apply LowerText.
\* The token is (?:p1|p2|..) followed by white space: its text ends with one
\* of the words and nothing follows the word inside the token.
EndsWithOneOf(t, words) ==
    /\ PureWord(t)
    /\ \E p \in words : HasSuffix(t.w, p) /\ (t.cap => t.w # p)

\* The token is exactly one of the words, with white space on both sides.
IsWord(t, words) == PureWord(t) /\ ~t.cap /\ t.w \in words

\* The token starts with one of the words (no word boundary after it).
StartsWithOneOf(t, words) == ~t.cap /\ \E p \in words : HasPrefix(t.w, p)

\* \bword\b somewhere in the text: the first word of some token is the word
\* ("'s" adds a second word "s" that is none of the keywords).
HasKeyword(text, words) ==
    \E i \in DOMAIN text : ~text[i].cap /\ text[i].w \in words

\* The literal "vs" with an optional dot, or "versus", between white space.
IsVersus(t) ==
    /\ ~t.cap
    /\ \/ t.w = "vs" /\ t.suf \in {"", "."}
       \/ t.w = "versus" /\ t.suf = ""

\* The tokens matching \b([A-Z][a-z]+)\b, in order.
RECURSIVE CapitalizedWords(_)
CapitalizedWords(text) ==
    IF text = << >> THEN << >>
    ELSE IF Head(text).cap
         THEN <<Head(text).w>> \o CapitalizedWords(Tail(text))
         ELSE CapitalizedWords(Tail(text))

(***************************************************************************)
(* SupervisorAgent: the three keyword checks.                              *)
(***************************************************************************)
\* check_pokemon_question
check_pokemon_question(question) ==
    LET q == LowerText(question)
        n == Len(q)
    IN  \/ HasKeyword(q, {"pokemon", "pokedex", "abilities", "type", "types",
                          "move", "moves", "evolution", "evolutions",
                          "height", "weight"})
        \/ \E i \in 1..(n - 1) :
              /\ q[i].w = "base" /\ PureWord(q[i])
              /\ q[i + 1].w = "stats"
        \/ \E i \in 1..(n - 2) :
              /\ EndsWithOneOf(q[i], {"how"})
              /\ IsWord(q[i + 1], {"tall"})
              /\ StartsWithOneOf(q[i + 2], {"is"})
        \/ \E i \in 1..(n - 2) :
              /\ EndsWithOneOf(q[i], {"how"})
              /\ IsWord(q[i + 1], {"much"})
              /\ StartsWithOneOf(q[i + 2], {"does"})

\* check_pokemon_battle
check_pokemon_battle(question) ==
    LET q == LowerText(question)
        n == Len(q)
    IN  \/ HasKeyword(q, {"battle", "fight", "win", "lose", "vs", "versus",
                          "stronger", "weaker", "effective", "advantage",
                          "beat"})
        \/ \E i \in 1..(n - 2) :
              /\ EndsInWord(q[i])
              /\ IsVersus(q[i + 1])
        \/ \E i \in 1..(n - 2) :
              /\ EndsWithOneOf(q[i], {"who"})
              /\ IsWord(q[i + 1], {"would"})
              /\ \/ StartsWithOneOf(q[i + 2], {"win", "lose"})
                 \/ /\ i + 3 <= n
                    /\ IsWord(q[i + 2], {"be"})
                    /\ StartsWithOneOf(q[i + 3], {"stronger"})

\* check_pokemon_data
check_pokemon_data(question) ==
    LET q == LowerText(question)
        n == Len(q)
    IN  \/ \E i \in 1..(n - 3) :
              /\ EndsWithOneOf(q[i], {"what"})
              /\ IsWord(q[i + 1], {"are", "is"})
              /\ IsWord(q[i + 2], {"the"})
              /\ \/ StartsWithOneOf(q[i + 3], {"stats"})
                 \/ /\ i + 4 <= n
                    /\ IsWord(q[i + 3], {"base"})
                    /\ StartsWithOneOf(q[i + 4], {"stats"})
        \/ \E i \in 1..(n - 2) :
              /\ EndsWithOneOf(q[i], {"what"})
              /\ IsWord(q[i + 1], {"type"})
              /\ StartsWithOneOf(q[i + 2], {"is"})
        \/ \E i \in 1..(n - 2) :
              /\ EndsWithOneOf(q[i], {"how"})
              /\ IsWord(q[i + 1], {"tall"})
              /\ StartsWithOneOf(q[i + 2], {"is"})
        \/ \E i \in 1..(n - 2) :
              /\ EndsWithOneOf(q[i], {"how"})
              /\ IsWord(q[i + 1], {"much"})
              /\ StartsWithOneOf(q[i + 2], {"does"})
              /\ \E j \in (i + 3)..n : HasInfix(q[j].w, "weigh")
        \/ \E i \in 1..(n - 2) :
              /\ EndsWithOneOf(q[i], {"what"})
              /\ IsWord(q[i + 1], {"abilities"})
              /\ StartsWithOneOf(q[i + 2], {"does", "do"})
        \/ \E i \in 1..(n - 3) :
              /\ EndsWithOneOf(q[i], {"show", "tell", "give"})
              /\ IsWord(q[i + 1], {"me"})
              /\ IsWord(q[i + 2], {"information"})
              /\ StartsWithOneOf(q[i + 3], {"about"})

(***************************************************************************)
(* SupervisorAgent: name extraction.  Every pattern is searched with       *)
(* re.IGNORECASE, and re.search returns the leftmost match; the captured   *)
(* groups are lowered, which is the field w of the captured token.         *)
(***************************************************************************)
\* The least index of a non-empty set of indices.
Leftmost(S) == CHOOSE i \in S : \A j \in S : i <= j

\* (?:between|of)\s+(\w+)\s+(?:and|vs\.?|versus)\s+(\w+)
BetweenAt(q) ==
    { i \in 1..(Len(q) - 3) :
        /\ EndsWithOneOf(q[i], {"between", "of"})
        /\ PureWord(q[i + 1])
        /\ (IsWord(q[i + 2], {"and"}) \/ IsVersus(q[i + 2])) }
BetweenGroups(q, i) == <<q[i + 1].w, q[i + 3].w>>

\* (\w+)\s+(?:vs\.?|versus)\s+(\w+)
VersusAt(q) ==
    { i \in 1..(Len(q) - 2) : EndsInWord(q[i]) /\ IsVersus(q[i + 1]) }
VersusGroups(q, i) == <<LastWord(q[i]), q[i + 2].w>>

\* (?:would|will|could)\s+(\w+)\s+(?:beat|defeat|win against)\s+(\w+)
BeatAt(q) ==
    { i \in 1..(Len(q) - 3) :
        /\ EndsWithOneOf(q[i], {"would", "will", "could"})
        /\ PureWord(q[i + 1])
        /\ \/ IsWord(q[i + 2], {"beat", "defeat"})
           \/ /\ i + 4 <= Len(q)
              /\ IsWord(q[i + 2], {"win"})
              /\ IsWord(q[i + 3], {"against"}) }
BeatGroups(q, i) ==
    <<q[i + 1].w,
      IF IsWord(q[i + 2], {"beat", "defeat"}) THEN q[i + 3].w ELSE q[i + 4].w>>

\* (?:would|will|could)\s+(\w+)\s+(?:or)\s+(\w+)\s+(?:win)
OrWinAt(q) ==
    { i \in 1..(Len(q) - 4) :
        /\ EndsWithOneOf(q[i], {"would", "will", "could"})
        /\ PureWord(q[i + 1])
        /\ IsWord(q[i + 2], {"or"})
        /\ PureWord(q[i + 3])
        /\ StartsWithOneOf(q[i + 4], {"win"}) }
OrWinGroups(q, i) == <<q[i + 1].w, q[i + 3].w>>

\* _extract_pokemon_names in which the capitalised words are looked at before
\* the patterns.
_extract_pokemon_names_capitals_first(question) ==
    LET q == LowerText(question)
        capitalized_words == CapitalizedWords(question)
    IN  IF Len(capitalized_words) >= 2
        THEN <<capitalized_words[1], capitalized_words[2]>>
        ELSE IF BetweenAt(q) # {} THEN BetweenGroups(q, Leftmost(BetweenAt(q)))
        ELSE IF VersusAt(q) # {} THEN VersusGroups(q, Leftmost(VersusAt(q)))
        ELSE IF BeatAt(q) # {} THEN BeatGroups(q, Leftmost(BeatAt(q)))
        ELSE IF OrWinAt(q) # {} THEN OrWinGroups(q, Leftmost(OrWinAt(q)))
        ELSE << >>

\* _extract_pokemon_names
_extract_pokemon_names(question) ==
    LET q == LowerText(question)
        capitalized_words == CapitalizedWords(question)
    IN  IF BetweenAt(q) # {} THEN BetweenGroups(q, Leftmost(BetweenAt(q)))
        ELSE IF VersusAt(q) # {} THEN VersusGroups(q, Leftmost(VersusAt(q)))
        ELSE IF BeatAt(q) # {} THEN BeatGroups(q, Leftmost(BeatAt(q)))
        ELSE IF OrWinAt(q) # {} THEN OrWinGroups(q, Leftmost(OrWinAt(q)))
        ELSE IF Len(capitalized_words) >= 2
             THEN <<capitalized_words[1], capitalized_words[2]>>
             ELSE << >>

\* (?:about|of)\s+(\w+)(?:\s|\'|$)
AboutAt(q) ==
    { i \in 1..(Len(q) - 1) :
        /\ EndsWithOneOf(q[i], {"about", "of"})
        /\ q[i + 1].suf \in {"", "'s"} }

\* (?:is|are)\s+(\w+)(?:\'s|\s)
IsAreAt(q) ==
    { i \in 1..(Len(q) - 1) :
        /\ EndsWithOneOf(q[i], {"is", "are"})
        /\ \/ q[i + 1].suf = "'s"
           \/ q[i + 1].suf = "" /\ i + 1 < Len(q) }

\* _extract_pokemon_name
_extract_pokemon_name(question) ==
    LET q == LowerText(question)
        capitalized_words == CapitalizedWords(question)
    IN  IF AboutAt(q) # {} THEN q[Leftmost(AboutAt(q)) + 1].w
        ELSE IF IsAreAt(q) # {} THEN q[Leftmost(IsAreAt(q)) + 1].w
        ELSE IF capitalized_words # << >> THEN capitalized_words[1]
        ELSE ""


(***************************************************************************)
(* The inputs of a run: the question and the results of the opaque calls.  *)
(***************************************************************************)
Vocabulary ==
    { Cap("pikachu"), Tok("charizard"), Tok("vs"), Tok("win"),
      Tok("what"), Tok("type"), Tok("is"), Tok("hello") }

\* All texts of at most n tokens over the set V.
TextsUpTo(V, n) == UNION { [1..k -> V] : k \in 0..n }

Corpus ==
    { <<Cap("would"), Cap("pikachu"), Tok("beat"), Suf(Cap("charizard"), "?")>>,
      <<Cap("tell"), Tok("me"), Tok("about"), Cap("eevee")>>,
      <<Cap("what"), Tok("are"), Suf(Cap("pikachu"), "'s"), Suf(Tok("stats"), "?")>>,
      <<Tok("what"), Tok("type"), Tok("is"), Suf(Cap("pikachu"), "?")>>,
      <<Cap("give"), Tok("me"), Tok("information"), Tok("about"), Tok("missingno")>>,
      <<Cap("who"), Tok("would"), Tok("win"), Tok("between"), Cap("mew"),
        Tok("and"), Suf(Cap("mewtwo"), "?")>>,
      <<Cap("would"), Tok("pikachu"), Tok("or"), Tok("charizard"), Suf(Tok("win"), "?")>>,
      <<Tok("what"), Tok("type"), Tok("is"), Cap("pikachu"), Tok("vs"),
        Suf(Cap("charizard"), "?")>>,
      <<Tok("what"), Tok("type"), Tok("is"), Cap("pikachu"), Tok("win")>> }

Questions == TextsUpTo(Vocabulary, MaxQLen) \cup Corpus

\* The texts the language model may answer with.
Answers == { <<Cap("yes")>>, <<Cap("pikachu"), Tok("is"), Tok("electric")>> }

\* The structured classification the opaque call returns (the fields the
\* test's mock gives it), or its failure.
Categories == {"direct_answer", "pokemon_research", "pokemon_data", "battle_analysis"}
ClassifierError == [raises |-> TRUE]
ClassifierResponses ==
    { r \in [question_type : Categories,
             pokemon_name : {"", "pikachu"},
             pokemon_names : {<< >>, <<"pikachu", "charizard">>},
             confidence : {5, 9}] :
        /\ r.pokemon_name # "" => r.question_type = "pokemon_data"
        /\ r.pokemon_names # << >> => r.question_type = "battle_analysis" }
ClassifierOutcomes == ClassifierResponses \cup {ClassifierError}


(***************************************************************************)
(* Strings that are not texts: names, type names, stat names.  Their case  *)
(* conversions are tables over the strings the model uses.                 *)
(***************************************************************************)
CapitalForm ==
    [ pikachu |-> "Pikachu", charizard |-> "Charizard", mew |-> "Mew",
      mewtwo |-> "Mewtwo", missingno |-> "Missingno", shadow |-> "Shadow",
      static |-> "Static", blaze |-> "Blaze",
      synchronize |-> "Synchronize", pressure |-> "Pressure",
      normal |-> "Normal", fire |-> "Fire", water |-> "Water",
      electric |-> "Electric", grass |-> "Grass", ice |-> "Ice",
      fighting |-> "Fighting", poison |-> "Poison", ground |-> "Ground",
      flying |-> "Flying", psychic |-> "Psychic", bug |-> "Bug",
      rock |-> "Rock", ghost |-> "Ghost", dragon |-> "Dragon",
      dark |-> "Dark", steel |-> "Steel", fairy |-> "Fairy" ]

\* str.lower()
LowerStr(str) ==
    IF \E k \in DOMAIN CapitalForm : CapitalForm[k] = str
    THEN CHOOSE k \in DOMAIN CapitalForm : CapitalForm[k] = str
    ELSE str

\* str.capitalize()
Capitalize(str) ==
    IF LowerStr(str) \in DOMAIN CapitalForm THEN CapitalForm[LowerStr(str)] ELSE str

\* str.replace("-", "_")
Underscore(str) == IF str = "special-attack" THEN "special_attack" ELSE str

\* str.replace("-", " ")
Spaced(str) == IF str = "lightning-rod" THEN "lightning rod" ELSE str

\* The string s occurs in the token t (Python's `s in text`, for a string s
\* without blanks or punctuation).
Contains(t, str) ==
    \/ ~t.cap /\ HasInfix(t.w, str)
    \/ t.cap /\ str # t.w /\ HasSuffix(t.w, str)
    \/ t.cap /\ str # LowerStr(str) /\ HasPrefix(t.w, LowerStr(str))
Occurs(str, text) == str = "" \/ \E i \in DOMAIN text : Contains(text[i], str)

(***************************************************************************)
(* ResearcherAgent: the Knowledge Fetcher.                                 *)
(***************************************************************************)
\* What the PokeAPI holds: the JSON of GET /pokemon/<name>.
ApiJson ==
    [ pikachu |->
        [name |-> "pikachu", id |-> 25, types |-> <<"electric">>,
         stats |-> <<[name |-> "hp", base_stat |-> 35],
                     [name |-> "attack", base_stat |-> 55],
                     [name |-> "special-attack", base_stat |-> 50],
                     [name |-> "speed", base_stat |-> 90]>>,
         height |-> 4, weight |-> 60, abilities |-> <<"static">>],
      charizard |->
        [name |-> "charizard", id |-> 6, types |-> <<"fire", "flying">>,
         stats |-> <<[name |-> "hp", base_stat |-> 78],
                     [name |-> "attack", base_stat |-> 84],
                     [name |-> "special-attack", base_stat |-> 109],
                     [name |-> "speed", base_stat |-> 100]>>,
         height |-> 17, weight |-> 905, abilities |-> <<"blaze">>],
      mew |->
        [name |-> "mew", id |-> 151, types |-> <<"psychic">>,
         stats |-> <<[name |-> "hp", base_stat |-> 100],
                     [name |-> "attack", base_stat |-> 100],
                     [name |-> "special-attack", base_stat |-> 100],
                     [name |-> "speed", base_stat |-> 100]>>,
         height |-> 4, weight |-> 40, abilities |-> <<"synchronize">>],
      mewtwo |->
        [name |-> "mewtwo", id |-> 150, types |-> <<"psychic">>,
         stats |-> <<[name |-> "hp", base_stat |-> 106],
                     [name |-> "attack", base_stat |-> 110],
                     [name |-> "special-attack", base_stat |-> 154],
                     [name |-> "speed", base_stat |-> 130]>>,
         height |-> 20, weight |-> 1220, abilities |-> <<"pressure">>] ]

\* The outcomes of requests.get(BASE_URL + name) followed by
\* raise_for_status(): the resource, a 404 for a name the API does not hold,
\* another HTTP error status, or an exception that is no HTTPError.
HttpOutcomes(name) ==
    (IF name \in DOMAIN ApiJson
     THEN {[status |-> 200, json |-> ApiJson[name]]}
     ELSE {[status |-> 404]})
    \cup {[status |-> 500], [exception |-> "ConnectionError"]}

\* A Python str built from a format string and its argument.
Str(template, arg) == [template |-> template, arg |-> arg]
IsDict(v) == "template" \notin DOMAIN v
IsStr(v) == "template" \in DOMAIN v

\* Python's `needle in value` for a str value, for the needles the code uses.
StrContains(v, needle) ==
    CASE needle = "not found" ->
            v.template = "Pokemon '{}' not found. Please check the spelling."
      [] OTHER -> FALSE

\* get_pokemon_data, given the outcome of the HTTP request.
get_pokemon_data(pokemon_name, http) ==
    LET name == LowerStr(pokemon_name)
    IN  IF "exception" \in DOMAIN http
        THEN Str("An unexpected error occurred: {}", http.exception)
        ELSE IF http.status = 200
        THEN LET data == http.json
                 statNames == { Underscore(data.stats[i].name) : i \in DOMAIN data.stats }
             IN  [name |-> Capitalize(data.name),
                  id |-> data.id,
                  types |-> [i \in DOMAIN data.types |-> Capitalize(data.types[i])],
                  stats |-> [k \in statNames |->
                               LET last == CHOOSE i \in DOMAIN data.stats :
                                       /\ Underscore(data.stats[i].name) = k
                                       /\ \A j \in DOMAIN data.stats :
                                            Underscore(data.stats[j].name) = k => j <= i
                               IN  data.stats[last].base_stat],
                  height |-> data.height,
                  weight |-> data.weight,
                  abilities |-> [i \in DOMAIN data.abilities |->
                                    Capitalize(Spaced(data.abilities[i]))]]
        ELSE IF http.status = 404
        THEN Str("Pokemon '{}' not found. Please check the spelling.", name)
        ELSE Str("Error fetching Pokemon data: {}", "HTTPError")

\* ResearcherAgent.query, given the agent's last message.
query(final_answer) == [answer |-> final_answer]


(***************************************************************************)
(* PokemonExpertAgent: the tools.  A multiplier is a float that is 0.0 or  *)
(* a power of two (every entry of the chart is 0.0, 0.5 or 2.0 and the     *)
(* product starts at 1.0); it is held as the pair of a zero flag and the   *)
(* exponent, which float multiplication keeps exact.                       *)
(***************************************************************************)
x2 == [zero |-> FALSE, exp |-> 1]
half == [zero |-> FALSE, exp |-> -1]
x0 == [zero |-> TRUE, exp |-> 0]
one == [zero |-> FALSE, exp |-> 0]

\* a * b in which 0.0 counts as 1.0.
TimesIgnoringZero(a, b) == [zero |-> FALSE, exp |-> a.exp + b.exp]

\* a * b on multipliers.
Times(a, b) ==
    IF a.zero \/ b.zero THEN x0 ELSE [zero |-> FALSE, exp |-> a.exp + b.exp]

effectiveness_chart ==
    [ normal |-> [fighting |-> x2, ghost |-> x0],
      fire |-> [grass |-> x2, ice |-> x2, bug |-> x2, steel |-> x2,
            fire |-> half, water |-> half, rock |-> half, dragon |-> half],
      water |-> [fire |-> x2, ground |-> x2, rock |-> x2, water |-> half,
            grass |-> half, dragon |-> half],
      electric |-> [water |-> x2, flying |-> x2, electric |-> half,
            grass |-> half, dragon |-> half, ground |-> x0],
      grass |-> [water |-> x2, ground |-> x2, rock |-> x2, fire |-> half,
            grass |-> half, poison |-> half, flying |-> half, bug |-> half,
            dragon |-> half, steel |-> half],
      ice |-> [grass |-> x2, ground |-> x2, flying |-> x2, dragon |-> x2,
            fire |-> half, water |-> half, ice |-> half, steel |-> half],
      fighting |-> [normal |-> x2, ice |-> x2, rock |-> x2, dark |-> x2,
            steel |-> x2, poison |-> half, flying |-> half,
            psychic |-> half, bug |-> half, fairy |-> half, ghost |-> x0],
      poison |-> [grass |-> x2, fairy |-> x2, poison |-> half,
            ground |-> half, rock |-> half, ghost |-> half, steel |-> x0],
      ground |-> [fire |-> x2, electric |-> x2, poison |-> x2, rock |-> x2,
            steel |-> x2, grass |-> half, bug |-> half, flying |-> x0],
      flying |-> [grass |-> x2, fighting |-> x2, bug |-> x2,
            electric |-> half, rock |-> half, steel |-> half],
      psychic |-> [fighting |-> x2, poison |-> x2, psychic |-> half,
            steel |-> half, dark |-> x0],
      bug |-> [grass |-> x2, psychic |-> x2, dark |-> x2, fire |-> half,
            fighting |-> half, poison |-> half, flying |-> half,
            ghost |-> half, steel |-> half, fairy |-> half],
      rock |-> [fire |-> x2, ice |-> x2, flying |-> x2, bug |-> x2,
            fighting |-> half, ground |-> half, steel |-> half],
      ghost |-> [psychic |-> x2, ghost |-> x2, dark |-> half, normal |-> x0],
      dragon |-> [dragon |-> x2, steel |-> half, fairy |-> x0],
      dark |-> [psychic |-> x2, ghost |-> x2, fighting |-> half,
            dark |-> half, fairy |-> half],
      steel |-> [ice |-> x2, rock |-> x2, fairy |-> x2, fire |-> half,
            water |-> half, electric |-> half, steel |-> half],
      fairy |-> [fighting |-> x2, dragon |-> x2, dark |-> x2,
            fire |-> half, poison |-> half, steel |-> half] ]

\* The loop of get_type_effectiveness over the defending types.
RECURSIVE Effectiveness(_, _, _)
Effectiveness(multiplier, attacking_type, defending_types) ==
    IF defending_types = << >> THEN multiplier
    ELSE LET defending_type == Head(defending_types)
             row == Get(effectiveness_chart, attacking_type, << >>)
         IN  Effectiveness(
                 IF defending_type \in DOMAIN row
                 THEN Times(multiplier, row[defending_type])
                 ELSE multiplier,
                 attacking_type, Tail(defending_types))

\* get_type_effectiveness without the lower-casing of its inputs.
get_type_effectiveness_unnormalized(attacking_type, defending_types) ==
    LET multiplier == Effectiveness(one, attacking_type, defending_types)
        effectiveness ==
            IF ~multiplier.zero /\ multiplier.exp > 0 THEN "super effective"
            ELSE IF ~multiplier.zero /\ multiplier.exp < 0 THEN "not very effective"
            ELSE IF multiplier.zero THEN "no effect"
            ELSE "neutral"
    IN  [attacking_type |-> Capitalize(attacking_type),
         defending_types |-> [i \in DOMAIN defending_types |->
                                 Capitalize(defending_types[i])],
         multiplier |-> multiplier,
         effectiveness |-> effectiveness]

\* get_type_effectiveness
get_type_effectiveness(attacking_type, defending_types) ==
    LET att == LowerStr(attacking_type)
        defs == [i \in DOMAIN defending_types |-> LowerStr(defending_types[i])]
        multiplier == Effectiveness(one, att, defs)
        effectiveness ==
            IF ~multiplier.zero /\ multiplier.exp > 0 THEN "super effective"
            ELSE IF ~multiplier.zero /\ multiplier.exp < 0 THEN "not very effective"
            ELSE IF multiplier.zero THEN "no effect"
            ELSE "neutral"
    IN  [attacking_type |-> Capitalize(att),
         defending_types |-> [i \in DOMAIN defs |-> Capitalize(defs[i])],
         multiplier |-> multiplier,
         effectiveness |-> effectiveness]

\* sum(stats.values())
RECURSIVE SumValues(_, _)
SumValues(stats, keys) ==
    IF keys = {} THEN 0
    ELSE LET k == CHOOSE x \in keys : TRUE
         IN  stats[k] + SumValues(stats, keys \ {k})

\* analyze_stats_comparison in which a tie counts for the first Pokemon.
analyze_stats_comparison_ties_to_first(stats1, stats2) ==
    LET total1 == SumValues(stats1, DOMAIN stats1)
        total2 == SumValues(stats2, DOMAIN stats2)
        common == { stat \in DOMAIN stats1 : stat \in DOMAIN stats2 }
    IN  [pokemon1_total |-> total1,
         pokemon2_total |-> total2,
         pokemon1_advantages |-> { stat \in common : stats1[stat] >= stats2[stat] },
         pokemon2_advantages |-> { stat \in common : stats2[stat] >= stats1[stat] },
         pokemon1_higher_total |-> total1 > total2,
         pokemon2_higher_total |-> total2 > total1,
         speed_advantage |->
            IF "speed" \in DOMAIN stats1 /\ "speed" \in DOMAIN stats2
            THEN IF stats1["speed"] > stats2["speed"] THEN "pokemon1"
                 ELSE IF stats2["speed"] > stats1["speed"] THEN "pokemon2"
                 ELSE "None"
            ELSE "None"]

\* analyze_stats_comparison in which the slower Pokemon gets the speed
\* advantage.
analyze_stats_comparison_slower_first(stats1, stats2) ==
    LET total1 == SumValues(stats1, DOMAIN stats1)
        total2 == SumValues(stats2, DOMAIN stats2)
        common == { stat \in DOMAIN stats1 : stat \in DOMAIN stats2 }
    IN  [pokemon1_total |-> total1,
         pokemon2_total |-> total2,
         pokemon1_advantages |-> { stat \in common : stats1[stat] > stats2[stat] },
         pokemon2_advantages |-> { stat \in common : stats2[stat] > stats1[stat] },
         pokemon1_higher_total |-> total1 > total2,
         pokemon2_higher_total |-> total2 > total1,
         speed_advantage |->
            IF "speed" \in DOMAIN stats1 /\ "speed" \in DOMAIN stats2
            THEN IF stats1["speed"] < stats2["speed"] THEN "pokemon1"
                 ELSE IF stats2["speed"] < stats1["speed"] THEN "pokemon2"
                 ELSE "None"
            ELSE "None"]

\* analyze_stats_comparison; the two lists of advantages are held as sets
\* (their order, the order of the keys of stats1, is not represented), and
\* a speed_advantage of None is the string "None".
analyze_stats_comparison(stats1, stats2) ==
    LET total1 == SumValues(stats1, DOMAIN stats1)
        total2 == SumValues(stats2, DOMAIN stats2)
        common == { stat \in DOMAIN stats1 : stat \in DOMAIN stats2 }
    IN  [pokemon1_total |-> total1,
         pokemon2_total |-> total2,
         pokemon1_advantages |-> { stat \in common : stats1[stat] > stats2[stat] },
         pokemon2_advantages |-> { stat \in common : stats2[stat] > stats1[stat] },
         pokemon1_higher_total |-> total1 > total2,
         pokemon2_higher_total |-> total2 > total1,
         speed_advantage |->
            IF "speed" \in DOMAIN stats1 /\ "speed" \in DOMAIN stats2
            THEN IF stats1["speed"] > stats2["speed"] THEN "pokemon1"
                 ELSE IF stats2["speed"] > stats1["speed"] THEN "pokemon2"
                 ELSE "None"
            ELSE "None"]

\* Python's `key in value`: a key of a dict, a substring of a str.
In(key, value) == IF IsDict(value) THEN key \in DOMAIN value ELSE StrContains(value, key)

\* The two checks in the other order: the second Pokemon is looked at first.
not_found_error_second_first(pokemon1_name, pokemon2_name, pokemon1_data, pokemon2_data) ==
    IF IsStr(pokemon2_data) /\ StrContains(pokemon2_data, "not found")
    THEN [error |-> Str("Pokemon '{}' not found", pokemon2_name)]
    ELSE IF IsStr(pokemon1_data) /\ StrContains(pokemon1_data, "not found")
    THEN [error |-> Str("Pokemon '{}' not found", pokemon1_name)]
    ELSE None

\* The two checks of compare_pokemon_data for a Pokemon that was not found:
\* the dict it returns then, or None to go on.  The message is
\* f"Pok\'emon '{name}' not found", written without the accent.
not_found_error(pokemon1_name, pokemon2_name, pokemon1_data, pokemon2_data) ==
    IF IsStr(pokemon1_data) /\ StrContains(pokemon1_data, "not found")
    THEN [error |-> Str("Pokemon '{}' not found", pokemon1_name)]
    ELSE IF IsStr(pokemon2_data) /\ StrContains(pokemon2_data, "not found")
    THEN [error |-> Str("Pokemon '{}' not found", pokemon2_name)]
    ELSE None

\* compare_pokemon_data, given the outcomes of the two HTTP requests.  The
\* keys of type_effectiveness, f"{name}_{attack_type}_vs_{name}", are the
\* triples of their parts; the second loop overwrites the first.
compare_pokemon_data(pokemon1_name, pokemon2_name, http1, http2) ==
    LET pokemon1_data == get_pokemon_data(pokemon1_name, http1)
        pokemon2_data == get_pokemon_data(pokemon2_name, http2)
        Range(seq) == { seq[i] : i \in DOMAIN seq }
        typed == In("types", pokemon1_data) /\ In("types", pokemon2_data)
        keys1 == IF typed
                 THEN { <<pokemon1_data.name, t, pokemon2_data.name>> :
                            t \in Range(pokemon1_data.types) }
                 ELSE {}
        keys2 == IF typed
                 THEN { <<pokemon2_data.name, t, pokemon1_data.name>> :
                            t \in Range(pokemon2_data.types) }
                 ELSE {}
        error == not_found_error(pokemon1_name, pokemon2_name,
                                 pokemon1_data, pokemon2_data)
    IN  IF error # None
        THEN error
        ELSE [pokemon1 |-> pokemon1_data,
              pokemon2 |-> pokemon2_data,
              type_effectiveness |->
                 [k \in keys1 \cup keys2 |->
                    IF k \in keys2
                    THEN get_type_effectiveness(k[2], pokemon1_data.types)
                    ELSE get_type_effectiveness(k[2], pokemon2_data.types)],
              stats_comparison |->
                 IF In("stats", pokemon1_data) /\ In("stats", pokemon2_data)
                 THEN analyze_stats_comparison(pokemon1_data.stats, pokemon2_data.stats)
                 ELSE << >>]

(***************************************************************************)
(* PokemonExpertAgent: the verdict.                                        *)
(***************************************************************************)
\* The sentinel of an undetermined verdict.
Undetermined == "can't determine who is the winner"

\* determine_winner, given the last message of the expert's agent.
determine_winner(pokemon1, pokemon2, final_answer) ==
    LET text == LowerText(final_answer)
        winner ==
            IF Occurs(LowerStr(pokemon1), text) /\ Occurs("win", text)
            THEN pokemon1
            ELSE IF Occurs(LowerStr(pokemon2), text) /\ Occurs("win", text)
            THEN pokemon2
            ELSE Undetermined
    IN  [winner |-> winner, reasoning |-> final_answer]

\* What the expert's agent may say in the router's runs.
Reasonings ==
    { <<Cap("pikachu"), Tok("wins")>>,
      <<Cap("charizard"), Tok("wins"), Tok("over"), Cap("pikachu")>>,
      <<Cap("mewtwo"), Tok("is"), Tok("stronger")>>,
      <<Tok("a"), Tok("draw")>> }

(***************************************************************************)
(* SupervisorAgent: the workflow nodes.  Python's None is the string       *)
(* "None" in the one string-valued field that holds it (next_step).        *)
(***************************************************************************)
\* process_question: the initial AgentState (messages is never read).
initial_state(question) ==
    [question |-> question, next_step |-> "None", pokemon_data |-> None,
     battle_result |-> None, final_answer |-> None]

\* _classify_question without the check that two names were extracted.
_classify_question_battle_unchecked(s) ==
    LET question == s.question
    IN  IF check_pokemon_battle(question)
        THEN Put(Put(s, "pokemon_names", _extract_pokemon_names(question)),
                 "next_step", "battle_analysis")
        ELSE IF check_pokemon_data(question)
        THEN LET pokemon_name == _extract_pokemon_name(question)
             IN  IF TruthyStr(pokemon_name)
                 THEN Put(Put(s, "pokemon_name", pokemon_name),
                          "next_step", "pokemon_data")
                 ELSE Put(s, "next_step", "pokemon_research")
        ELSE IF check_pokemon_question(question)
        THEN Put(s, "next_step", "pokemon_research")
        ELSE Put(s, "next_step", "direct_answer")

\* _classify_question without the check that a name was extracted.
_classify_question_data_unchecked(s) ==
    LET question == s.question
    IN  IF check_pokemon_battle(question)
        THEN LET pokemon_names == _extract_pokemon_names(question)
             IN  IF Len(pokemon_names) >= 2
                 THEN Put(Put(s, "pokemon_names", pokemon_names),
                          "next_step", "battle_analysis")
                 ELSE Put(s, "next_step", "pokemon_research")
        ELSE IF check_pokemon_data(question)
        THEN Put(Put(s, "pokemon_name", _extract_pokemon_name(question)),
                 "next_step", "pokemon_data")
        ELSE IF check_pokemon_question(question)
        THEN Put(s, "next_step", "pokemon_research")
        ELSE Put(s, "next_step", "direct_answer")

\* _classify_question with the data check made before the battle check.
_classify_question_data_first(s) ==
    LET question == s.question
    IN  IF check_pokemon_data(question)
        THEN LET pokemon_name == _extract_pokemon_name(question)
             IN  IF TruthyStr(pokemon_name)
                 THEN Put(Put(s, "pokemon_name", pokemon_name),
                          "next_step", "pokemon_data")
                 ELSE Put(s, "next_step", "pokemon_research")
        ELSE IF check_pokemon_battle(question)
        THEN LET pokemon_names == _extract_pokemon_names(question)
             IN  IF Len(pokemon_names) >= 2
                 THEN Put(Put(s, "pokemon_names", pokemon_names),
                          "next_step", "battle_analysis")
                 ELSE Put(s, "next_step", "pokemon_research")
        ELSE IF check_pokemon_question(question)
        THEN Put(s, "next_step", "pokemon_research")
        ELSE Put(s, "next_step", "direct_answer")

\* _classify_question: the response of the classification call is assigned
\* to a local and never read.
_classify_question(s) ==
    LET question == s.question
    IN  IF check_pokemon_battle(question)
        THEN LET pokemon_names == _extract_pokemon_names(question)
             IN  IF Len(pokemon_names) >= 2
                 THEN Put(Put(s, "pokemon_names", pokemon_names),
                          "next_step", "battle_analysis")
                 ELSE Put(s, "next_step", "pokemon_research")
        ELSE IF check_pokemon_data(question)
        THEN LET pokemon_name == _extract_pokemon_name(question)
             IN  IF TruthyStr(pokemon_name)
                 THEN Put(Put(s, "pokemon_name", pokemon_name),
                          "next_step", "pokemon_data")
                 ELSE Put(s, "next_step", "pokemon_research")
        ELSE IF check_pokemon_question(question)
        THEN Put(s, "next_step", "pokemon_research")
        ELSE Put(s, "next_step", "direct_answer")

\* _direct_answer, given the content of the model's reply.
_direct_answer(s, answer) == Put(s, "final_answer", [answer |-> answer])

\* _pokemon_research that also stores its result as battle_result.
_pokemon_research_sets_battle_result(s, result) ==
    Put(Put(Put(s, "pokemon_data", result), "battle_result", result),
        "final_answer", result)

\* _pokemon_research, given the result of researcher.query.
_pokemon_research(s, result) ==
    Put(Put(s, "pokemon_data", result), "final_answer", result)

\* _pokemon_data without the isinstance check: whatever was fetched is kept.
_pokemon_data_keeps_error(s, fetched, result) ==
    LET pokemon_name == Get(s, "pokemon_name", "")
    IN  IF ~TruthyStr(pokemon_name)
        THEN _pokemon_research(s, result)
        ELSE Put(Put(s, "pokemon_data", fetched), "final_answer", fetched)

\* _pokemon_data, given the result of researcher.get_pokemon_data and, for
\* the fallback, of researcher.query.
_pokemon_data(s, fetched, result) ==
    LET pokemon_name == Get(s, "pokemon_name", "")
    IN  IF ~TruthyStr(pokemon_name)
        THEN _pokemon_research(s, result)
        ELSE IF IsDict(fetched)
        THEN Put(Put(s, "pokemon_data", fetched), "final_answer", fetched)
        ELSE _pokemon_research(s, result)

\* _battle_analysis, given the last message of the expert's agent and, for
\* the fallback, the result of researcher.query.
_battle_analysis(s, expert_answer, result) ==
    LET pokemon_names == Get(s, "pokemon_names", << >>)
    IN  IF Len(pokemon_names) < 2
        THEN _pokemon_research(s, result)
        ELSE LET battle_result ==
                     determine_winner(pokemon_names[1], pokemon_names[2],
                                      expert_answer)
             IN  Put(Put(s, "battle_result", battle_result),
                     "final_answer", battle_result)

\* _decide_next_step that tests for the key final_answer, not for its value.
_decide_next_step_key_present(s) ==
    IF "final_answer" \in DOMAIN s THEN "END" ELSE Get(s, "next_step", "None")

\* _decide_next_step
_decide_next_step(s) ==
    IF TruthyDict(Get(s, "final_answer", None)) THEN "END" ELSE Get(s, "next_step", "None")

\* The conditional edges out of classify_question: a result without an
\* edge ("END", None) is an error of the graph.
ConditionalEdge(step) == IF step \in Categories THEN step ELSE "error"

\* The edges with pokemon_data wired on to pokemon_research instead of END.
EdgeDataToResearch(node) ==
    IF node = "pokemon_data" THEN "pokemon_research" ELSE "END"

\* The edges out of the four handler nodes.
Edge(node) == "END"

\* chat: the AnswerResponse built from the result of process_question.
AnswerResponse(result) ==
    [status |-> 200,
     answer |-> Get(result, "answer", EmptyText),
     reasoning |-> IF "reasoning" \in DOMAIN result
                   THEN [text |-> result["reasoning"]] ELSE None]


(***************************************************************************)
(* POST /api/chat: one run of process_question and the response.           *)
(***************************************************************************)
Call(fn, arg) == [fn |-> fn, arg |-> arg]

Init ==
    /\ \E question \in Questions : state = initial_state(question)
    /\ pc = "classify_question"
    /\ cls = None
    /\ visited = << >>
    /\ calls = << >>
    /\ response = None
    /\ bpc = "idle"
    /\ request = << >>
    /\ expert = FALSE
    /\ tool_calls = 0
    /\ comparison = None
    /\ verdict = None
    /\ bresponse = None
    /\ args = None
    /\ ret = None
    /\ runs = << >>

\* The node classify_question and the conditional edge that follows it.  An
\* exception of the classification call leaves the node, the graph and
\* process_question.
Classify ==
    /\ pc = "classify_question"
    /\ \E r \in ClassifierOutcomes :
          LET s2 == _classify_question(state)
          IN  /\ cls' = r
              /\ state' = IF r = ClassifierError THEN state ELSE s2
              /\ pc' = IF r = ClassifierError THEN "error"
                       ELSE ConditionalEdge(_decide_next_step(s2))
    /\ visited' = Append(visited, "classify_question")
    /\ calls' = Append(calls, Call("agent_executor.invoke", state.question))
    /\ UNCHANGED <<response, battleVars, toolVars, runs>>

\* The node direct_answer and its edge to END.
DirectAnswer ==
    /\ pc = "direct_answer"
    /\ \E answer \in Answers : state' = _direct_answer(state, answer)
    /\ pc' = Edge("direct_answer")
    /\ visited' = Append(visited, "direct_answer")
    /\ calls' = Append(calls, Call("llm.invoke", state.question))
    /\ UNCHANGED <<cls, response, battleVars, toolVars, runs>>

\* The node pokemon_research and its edge to END.
PokemonResearch ==
    /\ pc = "pokemon_research"
    /\ \E answer \in Answers : state' = _pokemon_research(state, query(answer))
    /\ pc' = Edge("pokemon_research")
    /\ visited' = Append(visited, "pokemon_research")
    /\ calls' = Append(calls, Call("researcher.query", state.question))
    /\ UNCHANGED <<cls, response, battleVars, toolVars, runs>>

\* The node pokemon_data and its edge to END.
PokemonData ==
    /\ pc = "pokemon_data"
    /\ LET pokemon_name == Get(state, "pokemon_name", "")
       IN  \E http \in HttpOutcomes(LowerStr(pokemon_name)), answer \in Answers :
              LET fetched == get_pokemon_data(pokemon_name, http)
              IN  /\ state' = _pokemon_data(state, fetched, query(answer))
                  /\ calls' = calls \o
                        (IF ~TruthyStr(pokemon_name)
                         THEN <<Call("researcher.query", state.question)>>
                         ELSE <<Call("researcher.get_pokemon_data", pokemon_name)>> \o
                              (IF IsDict(fetched) THEN << >>
                               ELSE <<Call("researcher.query", state.question)>>))
    /\ pc' = Edge("pokemon_data")
    /\ visited' = Append(visited, "pokemon_data")
    /\ UNCHANGED <<cls, response, battleVars, toolVars, runs>>

\* The node battle_analysis and its edge to END.
BattleAnalysis ==
    /\ pc = "battle_analysis"
    /\ LET pokemon_names == Get(state, "pokemon_names", << >>)
       IN  \E expert_answer \in Reasonings, answer \in Answers :
              /\ state' = _battle_analysis(state, expert_answer, query(answer))
              /\ calls' = Append(calls,
                     IF Len(pokemon_names) < 2
                     THEN Call("researcher.query", state.question)
                     ELSE Call("expert.determine_winner", pokemon_names))
    /\ pc' = Edge("battle_analysis")
    /\ visited' = Append(visited, "battle_analysis")
    /\ UNCHANGED <<cls, response, battleVars, toolVars, runs>>

\* chat: process_question returns final_state["final_answer"] and the
\* endpoint builds the response; an exception that left process_question
\* becomes the server's error response.
Respond ==
    /\ pc \in {"END", "error"}
    /\ response' = IF pc = "END" /\ state.final_answer # None
                   THEN AnswerResponse(state.final_answer)
                   ELSE [status |-> 500]
    /\ pc' = "responded"
    /\ UNCHANGED <<state, cls, visited, calls, battleVars, toolVars, runs>>

Next ==
    \/ Classify
    \/ DirectAnswer
    \/ PokemonResearch
    \/ PokemonData
    \/ BattleAnalysis
    \/ Respond

Spec == Init /\ [][Next]_vars

\* Every call the workflow makes returns or raises: no step waits for ever.
FairSpec == Spec /\ WF_vars(Next)

(***************************************************************************)
(* GET /api/battle: the endpoint, the expert it builds and the run of      *)
(* determine_winner, in which the expert's agent may call its tool         *)
(* compare_pokemon_data before it gives its last message.                  *)
(***************************************************************************)
ParamValues == {"", "pikachu", "Charizard", "mew", "missingno", "agumon"}

\* The query strings: each of the two parameters absent or given.
Requests ==
    UNION { [keys -> ParamValues] : keys \in SUBSET {"pokemon1", "pokemon2"} }

TextVocabulary == { Cap("pikachu"), Cap("charizard"), Cap("mewtwo"), Tok("wins") }
BattleTexts == TextsUpTo(TextVocabulary, MaxTextLen)

\* `await value`: only an awaitable can be awaited, and determine_winner is
\* a plain function that returns a dict.
Awaitable(value) == "__await__" \in DOMAIN value

BattleInit ==
    /\ request \in Requests
    /\ bpc = "validate"
    /\ expert = FALSE
    /\ tool_calls = 0
    /\ comparison = None
    /\ verdict = None
    /\ bresponse = None
    /\ pc = "idle"
    /\ state = None
    /\ cls = None
    /\ visited = << >>
    /\ calls = << >>
    /\ response = None
    /\ args = None
    /\ ret = None
    /\ runs = << >>

\* The handler with the expert built before its check of the two names.
ValidateAfterConstruct ==
    /\ bpc = "validate"
    /\ IF DOMAIN request # {"pokemon1", "pokemon2"}
       THEN /\ bresponse' = [status |-> 422]
            /\ bpc' = "responded"
            /\ UNCHANGED expert
       ELSE IF ~TruthyStr(request.pokemon1) \/ ~TruthyStr(request.pokemon2)
       THEN /\ bresponse' = [status |-> 400]
            /\ bpc' = "responded"
            /\ expert' = TRUE
       ELSE /\ expert' = TRUE
            /\ bpc' = "determine_winner"
            /\ UNCHANGED bresponse
    /\ UNCHANGED <<request, tool_calls, comparison, verdict, chatVars, toolVars, runs>>

\* The framework's validation of the required parameters and the handler's
\* own check; then the expert is built.
Validate ==
    /\ bpc = "validate"
    /\ IF DOMAIN request # {"pokemon1", "pokemon2"}
       THEN /\ bresponse' = [status |-> 422]
            /\ bpc' = "responded"
            /\ UNCHANGED expert
       ELSE IF ~TruthyStr(request.pokemon1) \/ ~TruthyStr(request.pokemon2)
       THEN /\ bresponse' = [status |-> 400]
            /\ bpc' = "responded"
            /\ UNCHANGED expert
       ELSE /\ expert' = TRUE
            /\ bpc' = "determine_winner"
            /\ UNCHANGED bresponse
    /\ UNCHANGED <<request, tool_calls, comparison, verdict, chatVars, toolVars, runs>>

\* The expert's agent calls compare_pokemon_data for the two names.
CompareTool ==
    /\ bpc = "determine_winner"
    /\ tool_calls < MaxToolCalls
    /\ \E http1 \in HttpOutcomes(LowerStr(request.pokemon1)),
          http2 \in HttpOutcomes(LowerStr(request.pokemon2)) :
          comparison' =
             [pokemon1_name |-> request.pokemon1,
              pokemon2_name |-> request.pokemon2,
              http1 |-> http1, http2 |-> http2,
              result |-> compare_pokemon_data(request.pokemon1, request.pokemon2,
                                              http1, http2)]
    /\ tool_calls' = tool_calls + 1
    /\ UNCHANGED <<bpc, request, expert, verdict, bresponse, chatVars, toolVars, runs>>

\* The agent gives its last message and determine_winner returns.
ExpertAnswer ==
    /\ bpc = "determine_winner"
    /\ \E final_answer \in BattleTexts :
          verdict' = determine_winner(request.pokemon1, request.pokemon2, final_answer)
    /\ bpc' = "await"
    /\ UNCHANGED <<request, expert, tool_calls, comparison, bresponse, chatVars, toolVars, runs>>

\* `await expert.determine_winner(...)` and the return of the handler.
BattleRespond ==
    /\ bpc = "await"
    /\ bresponse' = IF Awaitable(verdict)
                    THEN [status |-> 200, result |-> verdict]
                    ELSE [status |-> 500]
    /\ bpc' = "responded"
    /\ UNCHANGED <<request, expert, tool_calls, comparison, verdict, chatVars, toolVars, runs>>

BattleNext ==
    \/ Validate
    \/ CompareTool
    \/ ExpertAnswer
    \/ BattleRespond

BattleSpec == BattleInit /\ [][BattleNext]_vars

(***************************************************************************)
(* The claims.  A confidence is held in tenths: 7 is 0.7.                  *)
(***************************************************************************)
\* The classification call returned (it did not raise).
Returned == "confidence" \in DOMAIN cls

\* A call of the collaborator fn was made in this run.
Called(fn) == \E i \in DOMAIN calls : calls[i].fn = fn

\* The workflow has left its last node.
Finished == pc \in {"END", "responded"}

\* C1: whenever the classification call returned a confidence below 0.7, the
\* router selected pokemon_research, whatever the returned category and
\* names, and the battle predictor is not invoked.
C1_LowConfidenceGoesToResearch ==
    (Returned /\ cls.confidence < 7) =>
        /\ state.next_step = "pokemon_research"
        /\ ~Called("expert.determine_winner")

\* C2: the battle predictor is invoked only with the two names extracted
\* from the question; and when the router's category is battle_analysis (the
\* battle check holds) but fewer than two names were extracted, the node
\* pokemon_research runs instead and the predictor is not called.
C2_PredictorNeedsTwoNames ==
    /\ \A i \in DOMAIN calls :
          calls[i].fn = "expert.determine_winner" =>
             /\ Len(calls[i].arg) = 2
             /\ calls[i].arg = _extract_pokemon_names(state.question)
             /\ calls[i].arg = Get(state, "pokemon_names", << >>)
    /\ ( /\ Returned
         /\ check_pokemon_battle(state.question)
         /\ Len(_extract_pokemon_names(state.question)) < 2 ) =>
            /\ state.next_step = "pokemon_research"
            /\ pc \in {"pokemon_research", "END", "responded"}
            /\ Finished =>
                  /\ visited = <<"classify_question", "pokemon_research">>
                  /\ Called("researcher.query")
                  /\ ~Called("expert.determine_winner")

\* C2's case: a battle question without two names has been answered by the
\* research handler.
C2_Witness ==
    /\ pc = "END"
    /\ check_pokemon_battle(state.question)
    /\ Len(_extract_pokemon_names(state.question)) < 2
    /\ Called("researcher.query")

\* C3: when the router's category is pokemon_data (the battle check fails
\* and the data check holds) but the extracted name is empty, the node
\* pokemon_research runs and the final answer is its result; the Knowledge
\* Fetcher is never called with an empty name.
C3_DataWithoutNameGoesToResearch ==
    /\ \A i \in DOMAIN calls :
          calls[i].fn = "researcher.get_pokemon_data" => calls[i].arg # ""
    /\ ( /\ Returned
         /\ ~check_pokemon_battle(state.question)
         /\ check_pokemon_data(state.question)
         /\ _extract_pokemon_name(state.question) = "" ) =>
            /\ state.next_step = "pokemon_research"
            /\ pc \in {"pokemon_research", "END", "responded"}
            /\ Finished =>
                  /\ visited = <<"classify_question", "pokemon_research">>
                  /\ state.final_answer \in { query(answer) : answer \in Answers }
                  /\ ~Called("researcher.get_pokemon_data")

\* C3's case: a data question without a name has been answered by the
\* research handler.
C3_Witness ==
    /\ pc = "END"
    /\ ~check_pokemon_battle(state.question)
    /\ check_pokemon_data(state.question)
    /\ _extract_pokemon_name(state.question) = ""
    /\ state.final_answer \in { query(answer) : answer \in Answers }

\* C4: when the classification call raises, the router goes on to
\* pokemon_research and the caller gets a response, not an error.
C4_ClassifierFailureRecovered ==
    cls = ClassifierError =>
        /\ pc # "error"
        /\ state.next_step = "pokemon_research"
        /\ pc = "responded" => response.status = 200

\* C5: when the classification call returned pokemon_data with a name and a
\* confidence of at least 0.7, _classify_question has set next_step to
\* pokemon_data and pokemon_name to that name.
C5_ConfidentDataClassificationKept ==
    ( /\ Returned
      /\ cls.question_type = "pokemon_data"
      /\ cls.pokemon_name # ""
      /\ cls.confidence >= 7 ) =>
         /\ state.next_step = "pokemon_data"
         /\ Get(state, "pokemon_name", "") = cls.pokemon_name

\* The nodes run so far are classify_question, then at most one handler.
SinglePassOrder ==
    /\ Len(visited) <= 2
    /\ Len(visited) >= 1 => visited[1] = "classify_question"
    /\ Len(visited) = 2 => visited[2] \in Categories
    /\ pc = "classify_question" => visited = << >>
    /\ pc \in Categories => visited = <<"classify_question">>
    /\ pc = "END" => Len(visited) = 2

\* C6: a run is a single pass: classify_question once, then exactly one of
\* the four handler nodes, then END; no node runs twice and no handler is
\* followed by another node; and a run in which no call raises reaches END.
C6_SinglePass ==
    /\ []SinglePassOrder
    /\ ([](pc # "error")) => <>(pc = "END")

\* C6's case: a run has reached END through a handler node.
C6_Witness ==
    /\ pc = "END"
    /\ visited = <<"classify_question", "pokemon_data">>

\* The text "<winner> would win the battle."
WinnerSentence(winner) ==
    <<Tok(winner), Tok("would"), Tok("win"), Tok("the"), Suf(Tok("battle"), ".")>>

\* C7: when the handler's result holds a winner and a reasoning, the chat
\* response's answer is "<winner> would win the battle." and its reasoning
\* is the result's reasoning.
C7_BattleAnswerSynthesised ==
    (pc = "responded" /\ {"winner", "reasoning"} \subseteq DOMAIN state.final_answer) =>
        /\ response.answer = WinnerSentence(state.final_answer.winner)
        /\ response.reasoning = [text |-> state.final_answer.reasoning]

\* str(result): a text, never empty, that holds the result.
Stringified(result) == <<[repr |-> result]>>

\* C8: a result with an answer field gives that answer unchanged; a result
\* with neither an answer nor a winner and a reasoning gives its
\* stringified form as the answer, and no reasoning.
C8_AnswerPassedOrStringified ==
    (pc = "responded" /\ response.status = 200) =>
        LET result == state.final_answer
        IN  /\ "answer" \in DOMAIN result => response.answer = result.answer
            /\ ( /\ "answer" \notin DOMAIN result
                 /\ ~({"winner", "reasoning"} \subseteq DOMAIN result) ) =>
                    /\ response.answer = Stringified(result)
                    /\ response.reasoning = None

\* C9: the winner is one of the two names or the sentinel; a name wins only
\* when the text mentions it together with a winning term; and when that
\* does not single out one name (both are mentioned, neither is, or there is
\* no winning term) the winner is the sentinel.
C9_WinnerSingledOut ==
    verdict # None =>
        LET text == LowerText(verdict.reasoning)
            mentioned1 == Occurs(LowerStr(request.pokemon1), text)
            mentioned2 == Occurs(LowerStr(request.pokemon2), text)
            winning == Occurs("win", text)
        IN  /\ verdict.winner \in {request.pokemon1, request.pokemon2, Undetermined}
            /\ verdict.winner = request.pokemon1 => mentioned1 /\ winning
            /\ verdict.winner = request.pokemon2 => mentioned2 /\ winning
            /\ (~winning \/ mentioned1 = mentioned2) => verdict.winner = Undetermined

\* The Knowledge Fetcher reports "not found": the API answered 404.
NotFound(http) == "status" \in DOMAIN http /\ http.status = 404

\* C10: when the Knowledge Fetcher reports "not found" for either name,
\* compare_pokemon_data returns only the not-found error, which names the
\* missing Pokemon (the first one when both are missing): no
\* type-effectiveness and no stat comparison.
C10_NotFoundFailsComparison ==
    (comparison # None /\ (NotFound(comparison.http1) \/ NotFound(comparison.http2))) =>
        /\ DOMAIN comparison.result = {"error"}
        /\ comparison.result.error =
              Str("Pokemon '{}' not found",
                  IF NotFound(comparison.http1)
                  THEN comparison.pokemon1_name ELSE comparison.pokemon2_name)

\* C10's case: both lookups reported "not found", for two different names.
C10_Witness ==
    /\ comparison # None
    /\ NotFound(comparison.http1)
    /\ NotFound(comparison.http2)
    /\ comparison.pokemon1_name # comparison.pokemon2_name
    /\ "error" \in DOMAIN comparison.result

\* The HTTP request succeeded: a 200 response with the JSON of the Pokemon.
Succeeded(http) == "status" \in DOMAIN http /\ http.status = 200

\* C11: the Knowledge Fetcher never raises: it returns an attribute mapping
\* on success and a string on any failure; and whenever compare_pokemon_data
\* received a string for either Pokemon, 404 or not, it treats the lookup
\* as failed: its result is the error alone and holds no such string as the
\* data of a Pokemon.
C11_StringIsFailedLookup ==
    comparison # None =>
        LET pokemon1_data == get_pokemon_data(comparison.pokemon1_name, comparison.http1)
            pokemon2_data == get_pokemon_data(comparison.pokemon2_name, comparison.http2)
        IN  /\ IsDict(pokemon1_data) <=> Succeeded(comparison.http1)
            /\ IsDict(pokemon2_data) <=> Succeeded(comparison.http2)
            /\ (IsStr(pokemon1_data) \/ IsStr(pokemon2_data)) =>
                  DOMAIN comparison.result = {"error"}

(***************************************************************************)
(* The tools of the expert called on their own: one call of                *)
(* get_type_effectiveness on an attacking type and a list of defending     *)
(* types.                                                                  *)
(***************************************************************************)
\* The longest list of defending types.
MaxDefending == 2

\* The 18 types, in lower case: the keys of the chart.
TypeNames == DOMAIN effectiveness_chart

\* The arguments: the types in lower case, some of them capitalised, and a
\* string that is not a type.
AttackingInputs == TypeNames \cup {"Electric", "Water", "shadow"}
DefendingInputs == TypeNames \cup {"Ground", "shadow"}

\* No request is being handled.
NoRequest ==
    /\ pc = "idle"
    /\ state = None
    /\ cls = None
    /\ visited = << >>
    /\ calls = << >>
    /\ response = None
    /\ bpc = "idle"
    /\ request = << >>
    /\ expert = FALSE
    /\ tool_calls = 0
    /\ comparison = None
    /\ verdict = None
    /\ bresponse = None

TypeInit ==
    /\ args \in [attacking_type : AttackingInputs,
                 defending_types : TextsUpTo(DefendingInputs, MaxDefending)]
    /\ ret = None
    /\ runs = << >>
    /\ NoRequest

\* The call of get_type_effectiveness returns.
CallTypeEffectiveness ==
    /\ ret = None
    /\ "attacking_type" \in DOMAIN args
    /\ ret' = get_type_effectiveness(args.attacking_type, args.defending_types)
    /\ UNCHANGED <<args, chatVars, battleVars, runs>>

TypeNext == CallTypeEffectiveness

TypeSpec == TypeInit /\ [][TypeNext]_vars

\* The call of get_type_effectiveness has returned.
TypeReturned == ret # None /\ "attacking_type" \in DOMAIN args

\* The arguments in lower case.
LowerAttacking == LowerStr(args.attacking_type)
LowerDefending ==
    [i \in DOMAIN args.defending_types |-> LowerStr(args.defending_types[i])]

\* The chart of the mainline games (generation 6 on): for each attacking
\* type, the defending types it is super effective against (x2), not very
\* effective against (x0.5) and without effect on (x0); every other pair is
\* x1.
CanonicalDouble ==
    [ normal |-> {},
      fire |-> {"grass", "ice", "bug", "steel"},
      water |-> {"fire", "ground", "rock"},
      electric |-> {"water", "flying"},
      grass |-> {"water", "ground", "rock"},
      ice |-> {"grass", "ground", "flying", "dragon"},
      fighting |-> {"normal", "ice", "rock", "dark", "steel"},
      poison |-> {"grass", "fairy"},
      ground |-> {"fire", "electric", "poison", "rock", "steel"},
      flying |-> {"grass", "fighting", "bug"},
      psychic |-> {"fighting", "poison"},
      bug |-> {"grass", "psychic", "dark"},
      rock |-> {"fire", "ice", "flying", "bug"},
      ghost |-> {"psychic", "ghost"},
      dragon |-> {"dragon"},
      dark |-> {"psychic", "ghost"},
      steel |-> {"ice", "rock", "fairy"},
      fairy |-> {"fighting", "dragon", "dark"} ]

CanonicalHalf ==
    [ normal |-> {"rock", "steel"},
      fire |-> {"fire", "water", "rock", "dragon"},
      water |-> {"water", "grass", "dragon"},
      electric |-> {"electric", "grass", "dragon"},
      grass |-> {"fire", "grass", "poison", "flying", "bug", "dragon", "steel"},
      ice |-> {"fire", "water", "ice", "steel"},
      fighting |-> {"poison", "flying", "psychic", "bug", "fairy"},
      poison |-> {"poison", "ground", "rock", "ghost"},
      ground |-> {"grass", "bug"},
      flying |-> {"electric", "rock", "steel"},
      psychic |-> {"psychic", "steel"},
      bug |-> {"fire", "fighting", "poison", "flying", "ghost", "steel", "fairy"},
      rock |-> {"fighting", "ground", "steel"},
      ghost |-> {"dark"},
      dragon |-> {"steel"},
      dark |-> {"fighting", "dark", "fairy"},
      steel |-> {"fire", "water", "electric", "steel"},
      fairy |-> {"fire", "poison", "steel"} ]

CanonicalZero ==
    [ normal |-> {"ghost"}, fire |-> {}, water |-> {}, electric |-> {"ground"},
      grass |-> {}, ice |-> {}, fighting |-> {"ghost"}, poison |-> {"steel"},
      ground |-> {"flying"}, flying |-> {}, psychic |-> {"dark"}, bug |-> {},
      rock |-> {}, ghost |-> {"normal"}, dragon |-> {"fairy"}, dark |-> {},
      steel |-> {}, fairy |-> {} ]

CanonicalMultiplier(attacking, defending) ==
    IF defending \in CanonicalZero[attacking] THEN x0
    ELSE IF defending \in CanonicalHalf[attacking] THEN half
    ELSE IF defending \in CanonicalDouble[attacking] THEN x2
    ELSE one

\* C12: for every attacking type and every single defending type of the 18
\* types, the multiplier returned is the value of the canonical chart of
\* the mainline games for that pair.
C12_ChartIsCanonical ==
    ( /\ TypeReturned
      /\ Len(args.defending_types) = 1
      /\ LowerAttacking \in TypeNames
      /\ LowerDefending[1] \in TypeNames ) =>
         ret.multiplier = CanonicalMultiplier(LowerAttacking, LowerDefending[1])

\* The entry of the code's chart for a pair, 1.0 when the attacking type has
\* no row or the row has no entry for the defending type.
ChartEntry(attacking, defending) ==
    IF attacking \in DOMAIN effectiveness_chart
       /\ defending \in DOMAIN effectiveness_chart[attacking]
    THEN effectiveness_chart[attacking][defending]
    ELSE one

\* The product of the chart entries over a list of defending types, taken
\* from the right.
RECURSIVE Product(_, _)
Product(attacking, defending) ==
    IF defending = << >> THEN one
    ELSE Times(ChartEntry(attacking, Head(defending)),
               Product(attacking, Tail(defending)))

\* C13: on the inputs in lower case, the multiplier is the product over the
\* defending types of the chart entry for (attacking, defending); a
\* defending type without an entry and an attacking type without a row
\* count as 1.0 and are no error; an empty list gives 1.0 and "neutral".
C13_ProductWithNeutralDefault ==
    TypeReturned =>
        /\ ret.multiplier = Product(LowerAttacking, LowerDefending)
        /\ ret = get_type_effectiveness(LowerAttacking, LowerDefending)
        /\ LowerAttacking \notin TypeNames =>
              ret.multiplier = one /\ ret.effectiveness = "neutral"
        /\ args.defending_types = << >> =>
              ret.multiplier = one /\ ret.effectiveness = "neutral"

\* C13's case: a capitalised attacking type against a capitalised defending
\* type and a string that is not a type.
C13_Witness ==
    /\ TypeReturned
    /\ args.attacking_type = "Water"
    /\ args.defending_types = <<"Ground", "shadow">>
    /\ ret.multiplier = x2

\* 0.25 and 4.0
quarter == [zero |-> FALSE, exp |-> -2]
x4 == [zero |-> FALSE, exp |-> 2]

\* The label the thresholds give a multiplier.
Label(multiplier) ==
    IF multiplier.zero THEN "no effect"
    ELSE IF multiplier.exp < 0 THEN "not very effective"
    ELSE IF multiplier.exp = 0 THEN "neutral"
    ELSE "super effective"

\* C14: for every attacking type and every list of one or two defending
\* types of the 18 types, the multiplier is one of 0, 0.25, 0.5, 1, 2, 4 and
\* the label is the one its thresholds give; Electric against [Ground] is
\* 0 / no effect, Water against [Fire, Rock] is 4 / super effective; and an
\* immunity in any one defending type gives 0 / no effect.
C14_MultiplierAndLabel ==
    ( /\ TypeReturned
      /\ Len(args.defending_types) \in {1, 2}
      /\ LowerAttacking \in TypeNames
      /\ \A i \in DOMAIN LowerDefending : LowerDefending[i] \in TypeNames ) =>
         /\ ret.multiplier \in {x0, quarter, half, one, x2, x4}
         /\ ret.effectiveness = Label(ret.multiplier)
         /\ (LowerAttacking = "electric" /\ LowerDefending = <<"ground">>) =>
               ret.multiplier = x0 /\ ret.effectiveness = "no effect"
         /\ (LowerAttacking = "water" /\ LowerDefending = <<"fire", "rock">>) =>
               ret.multiplier = x4 /\ ret.effectiveness = "super effective"
         /\ (\E i \in DOMAIN LowerDefending :
                ChartEntry(LowerAttacking, LowerDefending[i]) = x0) =>
               ret.multiplier = x0 /\ ret.effectiveness = "no effect"

\* C14's case: a double weakness with an immunity beside it is looked at in
\* the same run: Electric against [Water, Ground].
C14_Witness ==
    /\ TypeReturned
    /\ args.attacking_type = "Electric"
    /\ args.defending_types = <<"water", "Ground">>
    /\ ret.effectiveness = "no effect"

(***************************************************************************)
(* One call of analyze_stats_comparison on two mappings of stats.          *)
(***************************************************************************)
\* The stat names and base stats of the arguments; a mapping holds any of
\* the names.
StatKeys == {"hp", "attack", "speed"}
StatValues == {35, 55, 78, 84, 90}
StatsInputs == UNION { [keys -> StatValues] : keys \in SUBSET StatKeys }

StatsInit ==
    /\ args \in [stats1 : StatsInputs, stats2 : StatsInputs]
    /\ ret = None
    /\ runs = << >>
    /\ NoRequest

\* The call of analyze_stats_comparison returns.
CallStatsComparison ==
    /\ ret = None
    /\ "stats1" \in DOMAIN args
    /\ ret' = analyze_stats_comparison(args.stats1, args.stats2)
    /\ UNCHANGED <<args, chatVars, battleVars, runs>>

StatsNext == CallStatsComparison

StatsSpec == StatsInit /\ [][StatsNext]_vars

\* The call of analyze_stats_comparison has returned.
StatsReturned == ret # None /\ "stats1" \in DOMAIN args

\* The value of a stat, 0 when the mapping lacks it; the sum of a mapping.
StatOr0(stats, stat) == IF stat \in DOMAIN stats THEN stats[stat] ELSE 0
Total(stats) == StatOr0(stats, "hp") + StatOr0(stats, "attack") + StatOr0(stats, "speed")

\* The stat is in both mappings and strictly greater in the first.
Greater(stats_a, stats_b, stat) ==
    /\ stat \in DOMAIN stats_a
    /\ stat \in DOMAIN stats_b
    /\ stats_a[stat] > stats_b[stat]

\* C15: a stat is among the advantages of the first Pokemon iff it is in
\* both mappings and strictly greater in the first, and among those of the
\* second iff it is in both and strictly greater in the second; ties and
\* stats held by one mapping only are in neither, so the two are disjoint;
\* each total is the sum of all the values of its own mapping.
C15_StrictAdvantagesAndTotals ==
    StatsReturned =>
        /\ ret.pokemon1_advantages =
              { stat \in StatKeys : Greater(args.stats1, args.stats2, stat) }
        /\ ret.pokemon2_advantages =
              { stat \in StatKeys : Greater(args.stats2, args.stats1, stat) }
        /\ ret.pokemon1_advantages \cap ret.pokemon2_advantages = {}
        /\ \A stat \in StatKeys :
              ( \/ stat \notin DOMAIN args.stats1
                \/ stat \notin DOMAIN args.stats2
                \/ args.stats1[stat] = args.stats2[stat] ) =>
                 stat \notin ret.pokemon1_advantages \cup ret.pokemon2_advantages
        /\ ret.pokemon1_total = Total(args.stats1)
        /\ ret.pokemon2_total = Total(args.stats2)

\* C15's case: a tie on hp, attack greater in the second, speed in the
\* first only.
C15_Witness ==
    /\ StatsReturned
    /\ args.stats1 = [hp |-> 78, attack |-> 55, speed |-> 90]
    /\ args.stats2 = [hp |-> 78, attack |-> 84]
    /\ ret.pokemon1_advantages = {}
    /\ ret.pokemon2_advantages = {"attack"}
    /\ ret.pokemon1_total = 223

\* C16: speed_advantage names the first Pokemon ("pokemon1", the spec's
\* "a") exactly when speed is among its advantages, the second exactly when
\* speed is among the second's, and is None when the speeds tie or a mapping
\* lacks speed; {hp 35, attack 55, speed 90} against {hp 78, attack 84,
\* speed 78} gives the totals 180 and 240, the speed advantage to the first
\* and hp and attack among the advantages of the second.
C16_SpeedAdvantage ==
    StatsReturned =>
        /\ ret.speed_advantage = "pokemon1" <=> "speed" \in ret.pokemon1_advantages
        /\ ret.speed_advantage = "pokemon2" <=> "speed" \in ret.pokemon2_advantages
        /\ ret.speed_advantage \in {"pokemon1", "pokemon2", "None"}
        /\ ( \/ "speed" \notin DOMAIN args.stats1
             \/ "speed" \notin DOMAIN args.stats2
             \/ args.stats1["speed"] = args.stats2["speed"] ) =>
              ret.speed_advantage = "None"
        /\ ( /\ args.stats1 = [hp |-> 35, attack |-> 55, speed |-> 90]
             /\ args.stats2 = [hp |-> 78, attack |-> 84, speed |-> 78] ) =>
              /\ ret.pokemon1_total = 180
              /\ ret.pokemon2_total = 240
              /\ ret.speed_advantage = "pokemon1"
              /\ {"hp", "attack"} \subseteq ret.pokemon2_advantages

\* C16's case: the example of the claim.
C16_Witness ==
    /\ StatsReturned
    /\ args.stats1 = [hp |-> 35, attack |-> 55, speed |-> 90]
    /\ args.stats2 = [hp |-> 78, attack |-> 84, speed |-> 78]
    /\ ret.speed_advantage = "pokemon1"

(***************************************************************************)
(* One call of _extract_pokemon_names on a question.                       *)
(***************************************************************************)
\* The words of the questions: names, capitalised or not, and the words of
\* the four patterns.
ExtractVocabulary ==
    { Cap("pikachu"), Tok("charizard"), Cap("mew"), Tok("between"), Tok("and"),
      Tok("vs"), Tok("would"), Tok("beat"), Tok("or"), Tok("win") }

\* Questions that more than one pattern matches:
\* "Pikachu vs Charizard of Mew and Mewtwo",
\* "Would Pikachu beat Charizard vs Mew",
\* "Would Mew or Pikachu win or would Pikachu beat Charizard".
ExtractCorpus ==
    { <<Cap("pikachu"), Tok("vs"), Cap("charizard"), Tok("of"), Cap("mew"),
        Tok("and"), Cap("mewtwo")>>,
      <<Cap("would"), Cap("pikachu"), Tok("beat"), Cap("charizard"), Tok("vs"),
        Cap("mew")>>,
      <<Cap("would"), Cap("mew"), Tok("or"), Cap("pikachu"), Tok("win"), Tok("or"),
        Tok("would"), Cap("pikachu"), Tok("beat"), Cap("charizard")>> }

ExtractQuestions ==
    TextsUpTo(ExtractVocabulary, MaxQLen) \cup Corpus \cup ExtractCorpus

ExtractInit ==
    /\ args \in [question : ExtractQuestions]
    /\ ret = None
    /\ runs = << >>
    /\ NoRequest

\* The call of _extract_pokemon_names returns its list of names.
CallExtractNames ==
    /\ ret = None
    /\ "question" \in DOMAIN args
    /\ ret' = [pokemon_names |-> _extract_pokemon_names(args.question)]
    /\ UNCHANGED <<args, chatVars, battleVars, runs>>

ExtractNext == CallExtractNames

ExtractSpec == ExtractInit /\ [][ExtractNext]_vars

\* The call of _extract_pokemon_names has returned.
ExtractReturned == ret # None /\ "question" \in DOMAIN args

\* C17: the result is the empty list or exactly two names; "Would Pikachu
\* beat Charizard?" gives [pikachu, charizard]; "Tell me about Eevee", which
\* matches no pattern and names one subject, gives the empty list.
C17_PairOrEmpty ==
    ExtractReturned =>
        /\ Len(ret.pokemon_names) \in {0, 2}
        /\ args.question = <<Cap("would"), Cap("pikachu"), Tok("beat"),
                             Suf(Cap("charizard"), "?")>> =>
              ret.pokemon_names = <<"pikachu", "charizard">>
        /\ args.question = <<Cap("tell"), Tok("me"), Tok("about"), Cap("eevee")>> =>
              ret.pokemon_names = << >>

\* The pattern of the list that decides a question: the first that matches
\* it, 0 when none does.
FirstPattern(q) ==
    IF BetweenAt(q) # {} THEN 1
    ELSE IF VersusAt(q) # {} THEN 2
    ELSE IF BeatAt(q) # {} THEN 3
    ELSE IF OrWinAt(q) # {} THEN 4
    ELSE 0

\* C18: the patterns are tried in the order of the list and the first that
\* matches gives the result from its two groups, whatever the later patterns
\* or the capitalised words would give; the capitalised words are looked at
\* only when no pattern matches.
C18_FirstMatchWins ==
    ExtractReturned =>
        LET q == LowerText(args.question)
            capitalized_words == CapitalizedWords(args.question)
        IN  /\ FirstPattern(q) = 1 =>
                  ret.pokemon_names = BetweenGroups(q, Leftmost(BetweenAt(q)))
            /\ FirstPattern(q) = 2 =>
                  ret.pokemon_names = VersusGroups(q, Leftmost(VersusAt(q)))
            /\ FirstPattern(q) = 3 =>
                  ret.pokemon_names = BeatGroups(q, Leftmost(BeatAt(q)))
            /\ FirstPattern(q) = 4 =>
                  ret.pokemon_names = OrWinGroups(q, Leftmost(OrWinAt(q)))
            /\ FirstPattern(q) = 0 =>
                  ret.pokemon_names =
                     IF Len(capitalized_words) >= 2
                     THEN <<capitalized_words[1], capitalized_words[2]>>
                     ELSE << >>

\* C18's case: the first pattern matches after the second does, and the
\* second pattern and the capitalised words would both give other names.
C18_Witness ==
    /\ ExtractReturned
    /\ args.question = <<Cap("pikachu"), Tok("vs"), Cap("charizard"), Tok("of"),
                         Cap("mew"), Tok("and"), Cap("mewtwo")>>
    /\ ret.pokemon_names = <<"mew", "mewtwo">>
    /\ VersusAt(LowerText(args.question)) # {}
    /\ Len(CapitalizedWords(args.question)) >= 2
    /\ CapitalizedWords(args.question)[1] = "pikachu"

\* Both parameters of GET /api/battle are present and not empty.
BothGiven ==
    /\ DOMAIN request = {"pokemon1", "pokemon2"}
    /\ request.pokemon1 # ""
    /\ request.pokemon2 # ""

\* C19: a GET /api/battle with both names present and not empty whose
\* predictor returned a verdict ends in a 200 response that carries the
\* verdict's winner, one of the two names or the sentinel, and its
\* reasoning, which is not empty; the handler does not end in an error.
C19_BattleReturnsVerdict ==
    (bpc = "responded" /\ BothGiven /\ verdict # None) =>
        /\ bresponse.status = 200
        /\ bresponse.result.winner = verdict.winner
        /\ bresponse.result.winner \in {request.pokemon1, request.pokemon2, Undetermined}
        /\ bresponse.result.reasoning = verdict.reasoning
        /\ bresponse.result.reasoning # EmptyText

\* C20: a GET /api/battle in which a name is missing ends in a 422 response,
\* one in which both are present and one is empty in a 400 response; no
\* expert is built for it and determine_winner and its tool are not called.
C20_InvalidRequestRejected ==
    (bpc # "validate" /\ ~BothGiven) =>
        /\ bpc = "responded"
        /\ bresponse.status =
              IF DOMAIN request # {"pokemon1", "pokemon2"} THEN 422 ELSE 400
        /\ expert = FALSE
        /\ tool_calls = 0
        /\ comparison = None
        /\ verdict = None

\* C20's case: both parameters are present, the first is empty, and the
\* request was answered.
C20_Witness ==
    /\ bpc = "responded"
    /\ DOMAIN request = {"pokemon1", "pokemon2"}
    /\ request.pokemon1 = ""
    /\ request.pokemon2 # ""
    /\ bresponse.status = 400

\* The node pokemon_data ran and fell back: its call of get_pokemon_data was
\* followed by a call of researcher.query on the question.
DataFellBack ==
    /\ Len(visited) = 2
    /\ visited[2] = "pokemon_data"
    /\ \E i \in DOMAIN calls :
          /\ calls[i].fn = "researcher.get_pokemon_data"
          /\ i < Len(calls)
          /\ calls[i + 1] = Call("researcher.query", state.question)

\* C22: when get_pokemon_data returns a string (not found, or another
\* error) in the node pokemon_data, the research handler runs on the
\* original question and its result is the final answer; the run does not
\* fail, and the string is never stored as pokemon_data nor as the final
\* answer.
C22_FetchErrorFallsBackToResearch ==
    /\ ~IsStr(state.pokemon_data)
    /\ ~IsStr(state.final_answer)
    /\ DataFellBack =>
          /\ pc \in {"END", "responded"}
          /\ state.final_answer \in { query(answer) : answer \in Answers }
          /\ state.pokemon_data = state.final_answer
          /\ pc = "responded" => response = AnswerResponse(state.final_answer)
    /\ (Finished /\ Len(visited) = 2 /\ visited[2] = "pokemon_data" /\ ~DataFellBack) =>
          /\ "name" \in DOMAIN state.final_answer
          /\ LowerStr(state.final_answer.name) = state.pokemon_name

\* C22's case: the fetch failed in the node pokemon_data and the answer of
\* the researcher was sent.
C22_Witness ==
    /\ pc = "responded"
    /\ DataFellBack
    /\ response.status = 200
    /\ response.answer = state.final_answer.answer

\* The keys of the state that a step set or changed.
Written == { k \in DOMAIN state' : k \notin DOMAIN state \/ state'[k] # state[k] }

\* One step of the workflow leaves the question alone and writes only the
\* fields of the node that ran: the routing fields for classify_question,
\* final_answer and the node's result field for a handler.
FrameOfStep ==
    /\ DOMAIN state \subseteq DOMAIN state'
    /\ state'.question = state.question
    /\ pc = "classify_question" =>
          Written \subseteq {"next_step", "pokemon_names", "pokemon_name"}
    /\ pc = "direct_answer" => Written \subseteq {"final_answer"}
    /\ pc = "pokemon_research" => Written \subseteq {"pokemon_data", "final_answer"}
    /\ pc = "pokemon_data" => Written \subseteq {"pokemon_data", "final_answer"}
    /\ pc = "battle_analysis" => Written \subseteq {"battle_result", "final_answer"}

\* The research handler ran, as a node or inside another handler.
ResearchRan == Called("researcher.query")

\* C23: no step of the router changes the question held in the state;
\* direct_answer writes final_answer only, research and data write
\* pokemon_data and final_answer, battle_analysis writes battle_result and
\* final_answer; so whenever the research handler ran, battle_result is
\* still None when the run ends.
C23_HandlersWriteOwnFields ==
    /\ [][FrameOfStep]_vars
    /\ [](state.question \in Questions)
    /\ []((Finished /\ ResearchRan) => state.battle_result = None)
    /\ []((Finished /\ state.battle_result # None) =>
             /\ visited[2] = "battle_analysis"
             /\ state.battle_result = state.final_answer
             /\ state.pokemon_data = None)

\* C23's case: a battle question without two names was answered by the
\* research handler and the response was sent.
C23_Witness ==
    /\ pc = "responded"
    /\ check_pokemon_battle(state.question)
    /\ visited = <<"classify_question", "pokemon_research">>
    /\ state.battle_result = None
    /\ state.pokemon_data = state.final_answer

\* The routing decision has just been taken: classify_question ran and the
\* conditional edge chose the next node.
Routed == visited = <<"classify_question">> /\ pc \notin {"error", "responded"}

\* C24: for every question and every classification the call returns, when
\* the routing decision is taken final_answer is still None and next_step is
\* one of the four handler names, so _decide_next_step returns neither
\* "END" nor None and the conditional edge always has a target; and when the
\* run ends final_answer is not None: process_question returns a mapping.
C24_RoutingAlwaysHasTarget ==
    /\ Routed =>
          /\ state.final_answer = None
          /\ state.next_step \in Categories
          /\ _decide_next_step(state) = state.next_step
          /\ pc = state.next_step
    /\ pc = "error" => cls = ClassifierError
    /\ (pc = "END" \/ (pc = "responded" /\ cls # ClassifierError)) =>
          /\ state.final_answer # None
          /\ IsDict(state.final_answer)
          /\ DOMAIN state.final_answer # {}
    /\ (pc = "responded" /\ cls # ClassifierError) => response.status = 200

\* C24's case: the routing decision was taken for a question that none of
\* the keyword checks recognises.
C24_Witness ==
    /\ Routed
    /\ pc = "direct_answer"
    /\ state.next_step = "direct_answer"
    /\ state.final_answer = None

MaxInvocations == 2
Invocations == 1 .. MaxInvocations

\* The questions of the concurrent invocations: one for each of the four
\* routes, and a battle question with a single name.
ConcurrentQuestions ==
    { <<Cap("would"), Cap("pikachu"), Tok("beat"), Suf(Cap("charizard"), "?")>>,
      <<Tok("what"), Tok("type"), Tok("is"), Suf(Cap("pikachu"), "?")>>,
      <<Tok("what"), Tok("type"), Tok("is"), Cap("pikachu"), Tok("win")>>,
      <<Tok("hello")>> }

\* process_question with the AgentState of the first invocation handed to
\* every workflow run.
process_state_shared(rs, i) == rs[1].state

\* process_question: the AgentState that invocation i hands from node to
\* node is the dict it built itself.
process_state(rs, i) == rs[i].state

\* The results the calls of a node returned to it: only the calls the node
\* makes are in the record.
NodeCalls(node, s, answer, http, expert_answer) ==
    CASE node = "direct_answer" -> [llm |-> answer]
      [] node = "pokemon_research" -> [query |-> answer]
      [] node = "pokemon_data" ->
            LET pokemon_name == Get(s, "pokemon_name", "")
            IN  IF ~TruthyStr(pokemon_name) THEN [query |-> answer]
                ELSE IF IsDict(get_pokemon_data(pokemon_name, http))
                THEN [http |-> http]
                ELSE [http |-> http, query |-> answer]
      [] node = "battle_analysis" ->
            IF Len(Get(s, "pokemon_names", << >>)) < 2
            THEN [query |-> answer]
            ELSE [expert |-> expert_answer]

\* The node of the workflow applied to a state, given the results of its
\* calls.
Node(node, s, res) ==
    CASE node = "direct_answer" ->
            _direct_answer(s, Get(res, "llm", EmptyText))
      [] node = "pokemon_research" ->
            _pokemon_research(s, query(Get(res, "query", EmptyText)))
      [] node = "pokemon_data" ->
            _pokemon_data(s,
                IF "http" \in DOMAIN res
                THEN get_pokemon_data(Get(s, "pokemon_name", ""), res.http)
                ELSE None,
                query(Get(res, "query", EmptyText)))
      [] node = "battle_analysis" ->
            _battle_analysis(s, Get(res, "expert", EmptyText),
                             query(Get(res, "query", EmptyText)))

ConcurrentInit ==
    /\ runs \in [Invocations ->
                    { [question |-> q, pc |-> "classify_question",
                       state |-> initial_state(q), results |-> << >>,
                       result |-> None] : q \in ConcurrentQuestions }]
    /\ args = None
    /\ ret = None
    /\ NoRequest

\* Invocation i runs the node classify_question and follows its
\* conditional edge; an exception of the classifier leaves the workflow.
ConcurrentClassify(i) ==
    /\ runs[i].pc = "classify_question"
    /\ \E r \in ClassifierOutcomes :
          LET s2 == _classify_question(process_state(runs, i))
          IN  runs' = [runs EXCEPT
                  ![i].results = [raised |-> r = ClassifierError],
                  ![i].state = IF r = ClassifierError THEN @ ELSE s2,
                  ![i].pc = IF r = ClassifierError THEN "error"
                            ELSE ConditionalEdge(_decide_next_step(s2))]
    /\ UNCHANGED <<chatVars, battleVars, toolVars>>

\* Invocation i runs the handler node it was routed to and follows the edge
\* to END.
ConcurrentHandle(i) ==
    /\ runs[i].pc \in Categories
    /\ LET node == runs[i].pc
           s == process_state(runs, i)
       IN  \E answer \in Answers, expert_answer \in Reasonings,
              http \in HttpOutcomes(LowerStr(Get(s, "pokemon_name", ""))) :
              LET res == NodeCalls(node, s, answer, http, expert_answer)
              IN  runs' = [runs EXCEPT
                      ![i].results = res @@ @,
                      ![i].state = Node(node, s, res),
                      ![i].pc = Edge(node)]
    /\ UNCHANGED <<chatVars, battleVars, toolVars>>

\* Invocation i returns final_state["final_answer"].
ConcurrentReturn(i) ==
    /\ runs[i].pc = "END"
    /\ runs' = [runs EXCEPT ![i].result = process_state(runs, i).final_answer,
                            ![i].pc = "returned"]
    /\ UNCHANGED <<chatVars, battleVars, toolVars>>

ConcurrentNext ==
    \E i \in Invocations :
        \/ ConcurrentClassify(i)
        \/ ConcurrentHandle(i)
        \/ ConcurrentReturn(i)

ConcurrentSpec == ConcurrentInit /\ [][ConcurrentNext]_vars

\* What process_question makes of a question when it runs alone and its
\* calls return the given results: the routing, the state at END, the
\* returned value.
AloneClassified(question) == _classify_question(initial_state(question))
AloneRoute(question) == ConditionalEdge(_decide_next_step(AloneClassified(question)))
AloneFinal(question, res) == Node(AloneRoute(question), AloneClassified(question), res)

\* C21: of the process_question invocations in progress on one
\* SupervisorAgent, interleaved in any order at their calls, each one's
\* routing, extracted names, state and returned answer are what its own
\* question and the results of its own calls give when it runs alone.
C21_InvocationsAreIndependent ==
    \A i \in Invocations :
        LET r == runs[i]
        IN  /\ r.state.question = r.question
            /\ r.pc \in {"classify_question", "error"} =>
                  r.state = initial_state(r.question)
            /\ r.pc = "error" => r.results.raised
            /\ r.pc \in Categories =>
                  /\ r.pc = AloneRoute(r.question)
                  /\ r.state = AloneClassified(r.question)
            /\ r.pc \in {"END", "returned"} =>
                  /\ r.state.next_step = AloneRoute(r.question)
                  /\ Get(r.state, "pokemon_names", None) =
                        Get(AloneClassified(r.question), "pokemon_names", None)
                  /\ Get(r.state, "pokemon_name", "") =
                        Get(AloneClassified(r.question), "pokemon_name", "")
                  /\ r.state = AloneFinal(r.question, r.results)
            /\ r.pc = "returned" =>
                  r.result = AloneFinal(r.question, r.results).final_answer

\* The second invocation ran from start to end on a data question while the
\* first, a battle question, was suspended between its classification and
\* its handler.
C21_Witness ==
    /\ runs[1].pc = "battle_analysis"
    /\ Len(runs[1].state.pokemon_names) = 2
    /\ runs[2].pc = "returned"
    /\ runs[2].state.next_step = "pokemon_data"
    /\ IsDict(runs[2].result)
    /\ "id" \in DOMAIN runs[2].result

=============================================================================
